---- MODULE Spec2Model ----
(***************************************************************************)
(* Model of src/main.py: VideoSummarizer.extract_video_segments,           *)
(* VideoSummarizer.create_summary_video and the driver main().             *)
(*                                                                         *)
(* Times are exact rationals <<numerator, denominator>> counted in ticks;  *)
(* TicksPerSecond ticks make one second, so the literal 1 of               *)
(* max(1, total_duration / num_segments) is TicksPerSecond ticks.  Python  *)
(* floats are modelled by these exact rationals (no rounding).             *)
(* The moviepy backend calls (subclipped, with_duration,                   *)
(* concatenate_videoclips, audio.subclip, set_audio, write_videofile) are  *)
(* the environment: each either returns or raises, chosen freely.          *)
(***************************************************************************)
EXTENDS Integers, Sequences, FiniteSets

\* ---------------------------------------------------------------- bounds
TicksPerSecond == 2
MaxDuration == 6
MaxSegments == 3
MaxSegmentDuration == 3
MaxNonPositive == 1

\* summary_duration default / the value main() passes, in seconds
SummaryDuration == 30

VARIABLES
    total_duration,     \* self.total_duration, ticks (> 0 after __init__)
    requested,          \* argument num_segments as passed by the caller
    segment_duration,   \* argument segment_duration, ticks
    has_audio,          \* truthiness of self.video.audio
    caller,             \* "main": the driver main(); "api": a direct caller
    pc,                 \* position of the run
    num_segments,       \* local num_segments after the reduction
    segment_interval,   \* local segment_interval (rational, ticks)
    i,                  \* loop index of for i in range(num_segments)
    planned,            \* ranges computed by the loop so far, in order
    failed,             \* loop indices whose subclipped() raised
    video_clips,        \* list video_clips: loop index of each clip kept
    warnings,           \* warnings printed
    raised,             \* exception that left extract_video_segments, or "none"
    adjusted_duration,  \* local adjusted_duration (rational, seconds)
    clips_with_duration,\* list clips_with_duration: [clip, duration]
    final_clip,         \* local final_clip, or NoClip
    opened,             \* clip handles created so far
    closed,             \* clip handles on which close() was called
    calls,              \* backend operations called so far
    encode_failed,      \* write_videofile raised
    written,            \* the output file was written
    result,             \* create_summary_video: "output_path" returned, or the exception raised
    report              \* what the caller printed at the end

vars == <<total_duration, requested, segment_duration, has_audio, caller, pc,
          num_segments, segment_interval, i, planned, failed, video_clips,
          warnings, raised, adjusted_duration, clips_with_duration,
          final_clip, opened, closed, calls, encode_failed, written, result,
          report>>

inputVars == <<total_duration, requested, segment_duration, has_audio, caller>>
extractVars == <<num_segments, segment_interval, i, planned, failed,
                 video_clips>>
composeVars == <<adjusted_duration, clips_with_duration, final_clip,
                 encode_failed, written>>

\* ------------------------------------------------------------- rationals
Rat(a, b) == IF b < 0 THEN <<0 - a, 0 - b>> ELSE <<a, b>>
Lt(x, y) == x[1] * y[2] < y[1] * x[2]
Le(x, y) == x[1] * y[2] <= y[1] * x[2]
Eq(x, y) == x[1] * y[2] = y[1] * x[2]
RMax(x, y) == IF Lt(x, y) THEN y ELSE x
RMin(x, y) == IF Lt(y, x) THEN y ELSE x
RAdd(x, y) == <<x[1] * y[2] + y[1] * x[2], x[2] * y[2]>>
RTimes(k, x) == <<k * x[1], x[2]>>

\* Python's floor division a // b for b # 0
FloorDiv(a, b) ==
    IF b > 0 THEN a \div b
    ELSE (0 - a) \div (0 - b)

NoClip == [clips |-> <<>>, audio |-> FALSE, made |-> FALSE]
NoRat == <<0, 1>>

\* ------------------------------------------------ extract_video_segments
\* lines 61-65: the reduction of num_segments
NeedsReduction(d, n, sd) == d < n * sd

ReducedCountWrongDivisor(d, n, sd) ==
    IF NeedsReduction(d, n, sd) THEN FloorDiv(d, n) ELSE n

ReducedCount(d, n, sd) ==
    IF NeedsReduction(d, n, sd) THEN FloorDiv(d, sd) ELSE n

\* line 67: max(1, self.total_duration / num_segments), for n # 0
SegmentIntervalMin(d, n) == RMin(Rat(TicksPerSecond, 1), Rat(d, n))

SegmentInterval(d, n) == RMax(Rat(TicksPerSecond, 1), Rat(d, n))

\* lines 71-72
StartTime(k, interval) == RTimes(k, interval)
EndTime(start, sd, d) == RMin(RAdd(start, Rat(sd, 1)), Rat(d, 1))

TimeRange(k) ==
    LET s == StartTime(k, segment_interval)
    IN  [start |-> s, end |-> EndTime(s, segment_duration, total_duration)]

Init ==
    /\ total_duration \in 1..MaxDuration
    /\ requested \in (0 - MaxNonPositive)..MaxSegments
    /\ segment_duration \in (0 - MaxNonPositive)..MaxSegmentDuration
    /\ has_audio \in BOOLEAN
    /\ caller \in {"main", "api"}
    /\ pc = "start"
    /\ num_segments = requested
    /\ segment_interval = NoRat
    /\ i = 0
    /\ planned = <<>>
    /\ failed = {}
    /\ video_clips = <<>>
    /\ warnings = {}
    /\ raised = "none"
    /\ adjusted_duration = NoRat
    /\ clips_with_duration = <<>>
    /\ final_clip = NoClip
    /\ opened = {}
    /\ closed = {}
    /\ calls = {}
    /\ encode_failed = FALSE
    /\ written = FALSE
    /\ result = "none"
    /\ report = "none"

\* lines 57-68, when line 67 divides by a non-zero count
ExtractBegin ==
    /\ pc = "start"
    /\ LET n == ReducedCount(total_duration, requested, segment_duration)
       IN  /\ n # 0
           /\ num_segments' = n
           /\ segment_interval' = SegmentInterval(total_duration, n)
    /\ warnings' = IF NeedsReduction(total_duration, requested, segment_duration)
                   THEN warnings \cup {"PlanReduced"} ELSE warnings
    /\ pc' = "loop"
    /\ UNCHANGED <<inputVars, i, planned, failed, video_clips, raised,
                   composeVars, opened, closed, calls, result, report>>

\* lines 57-67, when the count is 0: line 67 raises ZeroDivisionError
ExtractDivideByZero ==
    /\ pc = "start"
    /\ ReducedCount(total_duration, requested, segment_duration) = 0
    /\ num_segments' = 0
    /\ warnings' = IF NeedsReduction(total_duration, requested, segment_duration)
                   THEN warnings \cup {"PlanReduced"} ELSE warnings
    /\ raised' = "ZeroDivisionError"
    /\ pc' = "extract_raised"
    /\ UNCHANGED <<inputVars, segment_interval, i, planned, failed,
                   video_clips, composeVars, opened, closed, calls, result,
                   report>>

\* lines 70-78: one iteration whose subclipped() returns a clip
SliceOk ==
    /\ pc = "loop"
    /\ i < num_segments
    /\ planned' = Append(planned, TimeRange(i))
    /\ video_clips' = Append(video_clips, i)
    /\ opened' = opened \cup {<<"segment", i>>}
    /\ calls' = calls \cup {"subclipped"}
    /\ i' = i + 1
    /\ UNCHANGED <<inputVars, pc, num_segments, segment_interval, failed,
                   warnings, raised, composeVars, closed, result, report>>

SliceFailBreak ==
    /\ pc = "loop"
    /\ i < num_segments
    /\ planned' = Append(planned, TimeRange(i))
    /\ failed' = failed \cup {i}
    /\ warnings' = warnings \cup {"SliceError"}
    /\ calls' = calls \cup {"subclipped"}
    /\ i' = num_segments
    /\ UNCHANGED <<inputVars, pc, num_segments, segment_interval, video_clips,
                   raised, composeVars, opened, closed, result, report>>

\* lines 70-76, 79-81: one iteration whose subclipped() raises
SliceFail ==
    /\ pc = "loop"
    /\ i < num_segments
    /\ planned' = Append(planned, TimeRange(i))
    /\ failed' = failed \cup {i}
    /\ warnings' = warnings \cup {"SliceError"}
    /\ calls' = calls \cup {"subclipped"}
    /\ i' = i + 1
    /\ UNCHANGED <<inputVars, pc, num_segments, segment_interval, video_clips,
                   raised, composeVars, opened, closed, result, report>>

\* lines 83-86: the loop is over, video_clips is returned
ExtractReturn ==
    /\ pc = "loop"
    /\ i >= num_segments
    /\ warnings' = IF video_clips = <<>>
                   THEN warnings \cup {"NoValidSegments"} ELSE warnings
    /\ pc' = "extracted"
    /\ UNCHANGED <<inputVars, extractVars, raised, composeVars, opened,
                   closed, calls, result, report>>

\* ------------------------------------------------------------------ main
\* lines 152-153 and 160-161: main() composes only a non-empty list; a direct
\* caller ("api") hands whatever list it got to create_summary_video
DriverAfterExtract ==
    /\ pc = "extracted"
    /\ IF caller = "api" \/ video_clips # <<>>
       THEN pc' = "compose" /\ report' = report
       ELSE pc' = "done" /\ report' = "No valid video segments extracted."
    /\ UNCHANGED <<inputVars, extractVars, warnings, raised, composeVars,
                   opened, closed, calls, result>>

\* lines 163-166: an exception that left extract or create reaches the caller
DriverExcept ==
    /\ pc \in {"extract_raised", "create_raised"}
    /\ pc' = "done"
    /\ report' = "An error occurred"
    /\ UNCHANGED <<inputVars, extractVars, warnings, raised, composeVars,
                   opened, closed, calls, result>>

\* line 159: create_summary_video returned a path
DriverReport ==
    /\ pc = "created"
    /\ pc' = "done"
    /\ report' = "Video summary created"
    /\ UNCHANGED <<inputVars, extractVars, warnings, raised, composeVars,
                   opened, closed, calls, result>>

\* -------------------------------------------------- create_summary_video
RescaledOf(clips, duration) ==
    [k \in 1..Len(clips) |-> [clip |-> clips[k], duration |-> duration]]

RescaledHandles(n) == {<<"rescaled", video_clips[k]>> : k \in 1..n}

ComposeBeginNoCheck ==
    /\ pc = "compose"
    /\ adjusted_duration' =
           Rat(SummaryDuration,
               IF Len(video_clips) = 0 THEN 1 ELSE Len(video_clips))
    /\ pc' = "rescale"
    /\ UNCHANGED <<inputVars, extractVars, warnings, raised,
                   clips_with_duration, final_clip, encode_failed, written,
                   opened, closed, calls, result, report>>

\* lines 99-103
ComposeBegin ==
    /\ pc = "compose"
    /\ IF Len(video_clips) = 0
       THEN /\ result' = "ValueError"
            /\ pc' = "create_raised"
            /\ UNCHANGED adjusted_duration
       ELSE /\ adjusted_duration' = Rat(SummaryDuration, Len(video_clips))
            /\ pc' = "rescale"
            /\ UNCHANGED result
    /\ UNCHANGED <<inputVars, extractVars, warnings, raised, clips_with_duration,
                   final_clip, encode_failed, written, opened, closed, calls,
                   report>>

\* line 107: every with_duration() returns a new clip
RescaleOk ==
    /\ pc = "rescale"
    /\ clips_with_duration' = RescaledOf(video_clips, adjusted_duration)
    /\ opened' = opened \cup RescaledHandles(Len(video_clips))
    /\ calls' = calls \cup {"with_duration"}
    /\ pc' = "concat"
    /\ UNCHANGED <<inputVars, extractVars, warnings, raised,
                   adjusted_duration, final_clip, encode_failed, written,
                   closed, result, report>>

\* line 107 raising at clip n+1, caught at lines 130-131
RescaleFail ==
    /\ pc = "rescale"
    /\ \E n \in 0..(Len(video_clips) - 1) :
           opened' = opened \cup RescaledHandles(n)
    /\ calls' = calls \cup {"with_duration"}
    /\ warnings' = warnings \cup {"CreationError"}
    /\ pc' = "finally"
    /\ UNCHANGED <<inputVars, extractVars, raised, composeVars, closed,
                   result, report>>

\* line 110
ConcatOk ==
    /\ pc = "concat"
    /\ final_clip' = [clips |-> clips_with_duration, audio |-> FALSE,
                      made |-> TRUE]
    /\ opened' = opened \cup {<<"final", 0>>}
    /\ calls' = calls \cup {"concatenate_videoclips"}
    /\ pc' = "audio"
    /\ UNCHANGED <<inputVars, extractVars, warnings, raised,
                   adjusted_duration, clips_with_duration, encode_failed,
                   written, closed, result, report>>

\* line 110 raising, caught at lines 130-131
ConcatFail ==
    /\ pc = "concat"
    /\ calls' = calls \cup {"concatenate_videoclips"}
    /\ warnings' = warnings \cup {"CreationError"}
    /\ pc' = "finally"
    /\ UNCHANGED <<inputVars, extractVars, raised, composeVars, opened,
                   closed, result, report>>

\* lines 113-114 when self.video.audio is falsy
AudioAbsent ==
    /\ pc = "audio"
    /\ ~has_audio
    /\ pc' = "encode"
    /\ UNCHANGED <<inputVars, extractVars, warnings, raised, composeVars,
                   opened, closed, calls, result, report>>

\* lines 113-116, both calls returning
AudioOk ==
    /\ pc = "audio"
    /\ has_audio
    /\ final_clip' = [final_clip EXCEPT !.audio = TRUE]
    /\ calls' = calls \cup {"audio.subclip", "set_audio"}
    /\ pc' = "encode"
    /\ UNCHANGED <<inputVars, extractVars, warnings, raised,
                   adjusted_duration, clips_with_duration, encode_failed,
                   written, opened, closed, result, report>>

AudioFailEscalates ==
    /\ pc = "audio"
    /\ has_audio
    /\ \E made \in {{"audio.subclip"}, {"audio.subclip", "set_audio"}} :
           calls' = calls \cup made
    /\ warnings' = warnings \cup {"CreationError"}
    /\ pc' = "finally"
    /\ UNCHANGED <<inputVars, extractVars, raised, composeVars, opened,
                   closed, result, report>>

\* lines 113-118: audio.subclip (line 115) or set_audio (line 116) raises;
\* the inner except prints the warning and final_clip keeps no audio
AudioFail ==
    /\ pc = "audio"
    /\ has_audio
    /\ \E made \in {{"audio.subclip"}, {"audio.subclip", "set_audio"}} :
           calls' = calls \cup made
    /\ warnings' = warnings \cup {"AudioAttachFailed"}
    /\ pc' = "encode"
    /\ UNCHANGED <<inputVars, extractVars, raised, composeVars, opened,
                   closed, result, report>>

\* lines 121-128: write_videofile returns, then final_clip.close()
EncodeOk ==
    /\ pc = "encode"
    /\ calls' = calls \cup {"write_videofile"}
    /\ written' = TRUE
    /\ closed' = closed \cup {<<"final", 0>>}
    /\ pc' = "finally"
    /\ UNCHANGED <<inputVars, extractVars, warnings, raised,
                   adjusted_duration, clips_with_duration, final_clip,
                   encode_failed, opened, result, report>>

\* lines 121-126 raising, caught at lines 130-131; line 128 is skipped
EncodeFail ==
    /\ pc = "encode"
    /\ calls' = calls \cup {"write_videofile"}
    /\ encode_failed' = TRUE
    /\ warnings' = warnings \cup {"CreationError"}
    /\ pc' = "finally"
    /\ UNCHANGED <<inputVars, extractVars, raised, adjusted_duration,
                   clips_with_duration, final_clip, written, opened, closed,
                   result, report>>

\* lines 133-138: close every clip of video_segments, return self.output_path
FinallyReturn ==
    /\ pc = "finally"
    /\ closed' = closed \cup {<<"segment", video_clips[k]>> :
                                  k \in 1..Len(video_clips)}
    /\ result' = "output_path"
    /\ pc' = "created"
    /\ UNCHANGED <<inputVars, extractVars, warnings, raised, composeVars,
                   opened, calls, report>>

Next ==
    \/ ExtractBegin
    \/ ExtractDivideByZero
    \/ SliceOk
    \/ SliceFail
    \/ ExtractReturn
    \/ DriverAfterExtract
    \/ DriverExcept
    \/ DriverReport
    \/ ComposeBegin
    \/ RescaleOk
    \/ RescaleFail
    \/ ConcatOk
    \/ ConcatFail
    \/ AudioAbsent
    \/ AudioOk
    \/ AudioFail
    \/ EncodeOk
    \/ EncodeFail
    \/ FinallyReturn

Spec == Init /\ [][Next]_vars

\* ---------------------------------------------------------------- claims
Positive == requested > 0 /\ segment_duration > 0
Reduced == total_duration < requested * segment_duration
ExtractOver == pc \notin {"start", "loop"}
ComposeCalls == {"with_duration", "concatenate_videoclips", "audio.subclip",
                 "set_audio", "write_videofile"}
AudioFailed == has_audio /\ "audio.subclip" \in calls /\ ~final_clip.audio

\* C1: for positive count and segment duration every computed range
\* satisfies 0 <= start < end <= total_duration (stated as claimed; the
\* code breaks it when the interval is floored to one second).
C1_RangeWithinSource ==
    Positive =>
        \A k \in 1..Len(planned) :
            /\ Le(<<0, 1>>, planned[k].start)
            /\ Lt(planned[k].start, planned[k].end)
            /\ Le(planned[k].end, Rat(total_duration, 1))

\* C2: a run whose encode failed never gives its caller a successful
\* result: create_summary_video does not return the output path (stated
\* as claimed; the code returns the path).
C2_EncodeFailureSurfaced ==
    encode_failed => result # "output_path" /\ report # "Video summary created"

\* C3: once create_summary_video has returned or raised on a non-empty
\* list, every clip handle created (segments, rescaled clips, the
\* concatenated clip) has been closed (stated as claimed; the code leaks).
C3_AllHandlesReleased ==
    (result # "none" /\ Len(video_clips) > 0) => opened \subseteq closed

\* C4: a positive source shorter than one segment makes
\* extract_video_segments return an empty list without failing (stated as
\* claimed; the code raises ZeroDivisionError).
C4_ShortSourceReturnsEmpty ==
    (requested > 0 /\ total_duration < segment_duration /\ pc # "start") =>
        /\ raised = "none"
        /\ pc # "extract_raised"
        /\ video_clips = <<>>

\* C5: for positive inputs the number of ranges the loop computes is the
\* requested count when total_duration >= num_segments * segment_duration
\* and floor(total_duration / segment_duration) otherwise, and the
\* reduction warning is printed exactly in the second case.
C5_PlannedCount ==
    (Positive /\ ExtractOver) =>
        /\ Len(planned) = IF Reduced
                          THEN total_duration \div segment_duration
                          ELSE requested
        /\ ("PlanReduced" \in warnings) <=> Reduced

C5_Witness ==
    /\ Positive
    /\ pc = "extracted"
    /\ "PlanReduced" \in warnings
    /\ Len(planned) >= 1
    /\ Len(planned) < requested

\* C6: a non-positive count or segment duration is rejected with the
\* invalid-input error (ValueError) before any range is computed or any
\* slice is requested (stated as claimed; the code does not validate).
C6_InvalidInputRejected ==
    ((requested <= 0 \/ segment_duration <= 0) /\ pc # "start") =>
        /\ raised = "ValueError"
        /\ planned = <<>>
        /\ "subclipped" \notin calls

\* C7: when the audio trim or attach fails, composition goes on to the
\* encode step with the concatenated clip without audio, the warning is
\* recorded, and the clips and their rescale target are those of any run:
\* every segment in order, each at summary_duration / number of clips.
C7_AudioFailureNotFatal ==
    AudioFailed =>
        /\ pc = "encode" \/ "write_videofile" \in calls
        /\ "AudioAttachFailed" \in warnings
        /\ final_clip.made /\ ~final_clip.audio
        /\ final_clip.clips =
               RescaledOf(video_clips, <<SummaryDuration, Len(video_clips)>>)

C7_Witness ==
    /\ AudioFailed
    /\ written
    /\ result = "output_path"
    /\ Len(final_clip.clips) >= 2

\* C8: whatever subset of the slices fails, the returned list holds one
\* clip for every range whose slice succeeded and none for the failed
\* ones, in increasing order, and every range was attempted.
C8_SkipsExactlyFailed ==
    (ExtractOver /\ raised = "none") =>
        /\ Len(planned) = IF num_segments > 0 THEN num_segments ELSE 0
        /\ {video_clips[k] : k \in 1..Len(video_clips)} =
               {k \in 0..(num_segments - 1) : k \notin failed}
        /\ \A k \in 1..(Len(video_clips) - 1) :
               video_clips[k] < video_clips[k + 1]

C8_Witness ==
    /\ pc = "extracted"
    /\ \E f \in failed : \E k \in 1..Len(video_clips) : video_clips[k] > f

\* C9: with zero realized clips nothing is composed or written:
\* create_summary_video raises ValueError before any rescale, concatenate,
\* audio or encode call, and main() does not call it at all.
C9_NoSegmentsNoOutput ==
    (ExtractOver /\ video_clips = <<>>) =>
        /\ ~written
        /\ calls \cap ComposeCalls = {}
        /\ pc \notin {"rescale", "concat", "audio", "encode", "finally",
                      "created"}
        /\ result \in {"none", "ValueError"}
        /\ caller = "main" => result = "none" /\ pc # "compose"
        /\ (caller = "api" /\ raised = "none" /\ pc \in {"create_raised", "done"})
               => result = "ValueError"

C9_Witness ==
    /\ caller = "api"
    /\ result = "ValueError"
    /\ failed # {}
    /\ pc = "done"

\* C10: for positive inputs consecutive planned ranges do not overlap:
\* the end of range k is at most the start of range k + 1.
C10_NoOverlap ==
    Positive =>
        \A k \in 1..(Len(planned) - 1) :
            Le(planned[k].end, planned[k + 1].start)

C10_Witness ==
    /\ Positive
    /\ "PlanReduced" \in warnings
    /\ Len(planned) >= 2
    /\ Eq(planned[1].end, planned[2].start)
    /\ Lt(Rat(TicksPerSecond, 1), Rat(segment_duration, 1))
====
